---- MODULE Spec2Model ----
(***************************************************************************)
(* UPGMA tree construction of src/distancematrixtree/upgma.h               *)
(* (StartTree::UPGMA_Matrix and VectorizedUPGMA_Matrix).                   *)
(*                                                                         *)
(* Distances (the C++ type T = float) are fixed-point numbers: an integer  *)
(* d stands for the distance d / Scale.  Weighted averages are computed    *)
(* on the integers and rounded down, which is exact for every cluster      *)
(* size that occurs with up to five taxa.                                  *)
(*                                                                         *)
(* Rows, columns and cluster numbers are 0-based as in the source; the     *)
(* cluster tracker `clusters` is a sequence, so cluster c is clusters[c+1].*)
(***************************************************************************)
EXTENDS Integers, Sequences, FiniteSets, TLC

\* Largest number of taxa handed to loadMatrix.
MaxN == 5

\* Longest matrix row handed to the two row scanners (ScanSpec).
MaxScanRow == 10

\* Most calls of loadMatrix on one object (ReloadSpec).
MaxLoads == 2

\* Largest target-branch and taxon index handed to prepareToFilter (FilterSpec).
MaxIndex == 3

\* Most variable parameters of one type in a YAML rate model (WrapperSpec).
MaxVariables == 2

\* Largest proportion of invariant sites, in units of MIN_PINVAR (InvarSpec).
MaxProportion == 3

\* One distance unit of the source is Scale units of the model.
Scale == 3 * 4

\* const NJFloat infiniteDistance = (NJFloat)(1e+36), in model units.
infiniteDistance == 1000 * Scale

\* VectorizedUPGMA_Matrix::blockSize = VB().size(), with VB = FloatBoolVector
\* = Vec8fb: eight lanes.
blockSize == 8

\* The distances an input matrix is made of.
BaseDistances == {0, 4 * Scale, infiniteDistance}

\* 2 * infiniteDistance stands for an entry above the sentinel (+infinity).
EntryDistances ==
    {0, 2 * Scale, 4 * Scale, 6 * Scale, infiniteDistance, 2 * infiniteDistance}

VARIABLES
    pc,              \* where the caller / constructTree is
    rank,            \* SquareMatrix: the allocated dimension (setSize)
    row_count,       \* SquareMatrix::row_count, the live window
    rows,            \* SquareMatrix::rows, rank x rank
    rowToCluster,    \* UPGMA_Matrix::rowToCluster
    clusters,        \* UPGMA_Matrix::clusters (ClusterTree)
    rowMinima,       \* UPGMA_Matrix::rowMinima
    best,            \* constructTree's local Position best
    isRooted,        \* UPGMA_Matrix::isRooted
    vvc,             \* clusterDuplicates' DuplicateTaxa vvc
    vcIndex,         \* joinUpDuplicateClusters: which vc of vvc is in hand
    i_dup,           \* joinUpDuplicateClusters: the inner loop's i
    first_half,      \* joinUpDuplicateClusters: first_half
    second_half,     \* joinUpDuplicateClusters: second_half
    cluster_to_row,  \* joinUpDuplicateClusters: cluster_to_row
    dupes_removed,   \* joinUpDuplicateClusters: dupes_removed
    loadResult,      \* what loadMatrix returned ("none" before the call)
    matrix_in,       \* loadMatrix's argument matrix, as the caller holds it
    joins,           \* history: every call cluster(a, b), in order
    finishCalls,     \* history: how often finishClustering was entered
    scanData,        \* ScanSpec: the row handed to the scanners
    scalarPos,       \* ScanSpec: what UPGMA_Matrix::getRowMinima found
    vectorPos,       \* ScanSpec: what VectorizedUPGMA_Matrix::getRowMinima found
    scanIter,        \* ParSpec: the iterations of getRowMinima's parallel loop
    loads,           \* ReloadSpec: how often loadMatrix was called
    heuristic,       \* FilterSpec: a call of BaseballSearchHeuristic::prepareToFilter
    wrapper,         \* BoundsSpec: a YAMLRateModelWrapper and its setBounds call
    invar            \* InvarSpec: a RateInvar and its defaultInvariantProportion call

treeVars == <<pc, rank, row_count, rows, rowToCluster, clusters, rowMinima,
              best, isRooted, vvc, vcIndex, i_dup, first_half, second_half,
              cluster_to_row, dupes_removed, loadResult, matrix_in, joins,
              finishCalls>>

\* The state of the classes of src/placement and src/model.
unitVars == <<heuristic, wrapper, invar>>

scanVars == <<scanData, scalarPos, vectorPos, scanIter, loads, unitVars>>

vars == <<treeVars, scanVars>>

----------------------------------------------------------------------------
(* Position and its order *)

\* Position<T>::Position(r, c, v, imbalance_val)
Position(r, c, v, imb) == [row |-> r, column |-> c, value |-> v, imbalance |-> imb]

\* Position<T>::Position()
DefaultPosition == Position(0, 0, 0, 0)

\* Position<T>::operator<
PositionLess(p, q) ==
    \/ p.value < q.value
    \/ (p.value = q.value /\ p.imbalance < q.imbalance)

----------------------------------------------------------------------------
(* The cluster tracker (ClusterTree, clustertree.h) *)

\* clusters[c].countOfExteriorNodes
countOfExteriorNodes(c) == clusters[c + 1].countOfExteriorNodes

\* ClusterTree::addCluster(name): a leaf record
LeafCluster == [children |-> <<>>, countOfExteriorNodes |-> 1]

\* ClusterTree::addCluster(a, aLength, b, bLength [, c, cLength]): the record
\* of an interior node over the given <<cluster, length>> links.
RECURSIVE SumCounts(_, _)
SumCounts(cl, links) ==
    IF links = <<>> THEN 0
    ELSE cl[Head(links)[1] + 1].countOfExteriorNodes + SumCounts(cl, Tail(links))

addCluster(cl, links) ==
    Append(cl, [children |-> links, countOfExteriorNodes |-> SumCounts(cl, links)])

----------------------------------------------------------------------------
(* The matrix store (SquareMatrix, distancematrix.h) *)

\* SquareMatrix::removeRowAndColumn(rowNum): the last live column is written
\* over column rowNum of every live row, the last live row over row rowNum.
removeRowAndColumn(M, rc, rowNum) ==
    LET last == rc - 1
        C == [r \in DOMAIN M |->
                [c \in DOMAIN M[r] |->
                    IF c = rowNum /\ r < rc THEN M[r][last] ELSE M[r][c]]]
    IN  [r \in DOMAIN C |-> IF r = rowNum THEN C[last] ELSE C[r]]

----------------------------------------------------------------------------
(* Row scan and global reduction *)

\* UPGMA_Matrix::getImbalance
getImbalance(rowA, rowB) ==
    LET sizeA == countOfExteriorNodes(rowToCluster[rowA])
        sizeB == countOfExteriorNodes(rowToCluster[rowB])
    IN  IF sizeA < sizeB THEN sizeB - sizeA ELSE sizeA - sizeB

\* The test of the scalar scan's inner loop: bool better = ( v < bestVrc )
ScalarBetterFlipped(v, bestVrc) == v <= bestVrc

ScalarBetter(v, bestVrc) == v < bestVrc

\* The inner loop of UPGMA_Matrix::getRowMinima over columns col..row-1 of
\* rowData, from the running (bestColumn, bestVrc).
RECURSIVE ScalarScan(_, _, _, _, _)
ScalarScan(rowData, row, col, bestColumn, bestVrc) ==
    IF col >= row THEN <<bestColumn, bestVrc>>
    ELSE IF ScalarBetter(rowData[col], bestVrc)
         THEN ScalarScan(rowData, row, col + 1, col, rowData[col])
         ELSE ScalarScan(rowData, row, col + 1, bestColumn, bestVrc)

\* UPGMA_Matrix::getRowMinima: the new content of rowMinima.
getRowMinima ==
    [r \in 0..(row_count - 1) |->
        IF r = 0
        THEN IF 0 \in DOMAIN rowMinima
             THEN [rowMinima[0] EXCEPT !.value = infiniteDistance]
             ELSE [DefaultPosition EXCEPT !.value = infiniteDistance]
        ELSE LET m == ScalarScan(rows[r], r, 0, 0, infiniteDistance)
             IN  Position(r, m[1], m[2], getImbalance(r, m[1]))]

\* The test of getMinimumEntry's loop.
EntryBetterByPosition(here, b) == PositionLess(here, b) /\ here.row # here.column

EntryBetterAny(here, b) == here.row # here.column

EntryBetter(here, b) == here.value < b.value /\ here.row # here.column

\* UPGMA_Matrix::getMinimumEntry's loop over rows r..row_count-1 of minima.
RECURSIVE ReduceMinima(_, _, _)
ReduceMinima(minima, r, b) ==
    IF r >= row_count THEN b
    ELSE ReduceMinima(minima, r + 1, IF EntryBetter(minima[r], b) THEN minima[r] ELSE b)

\* UPGMA_Matrix::getMinimumEntry(best)
getMinimumEntry(b) ==
    ReduceMinima(getRowMinima, 0, [b EXCEPT !.value = infiniteDistance])

----------------------------------------------------------------------------
(* The join *)

\* Dci = lambda * Dai + mu * Dbi with lambda = aCount / tCount, mu = 1 - lambda
JoinedDistance(a, b, i) ==
    LET aCount == countOfExteriorNodes(rowToCluster[a])
        bCount == countOfExteriorNodes(rowToCluster[b])
    IN  (aCount * rows[a][i] + bCount * rows[b][i]) \div (aCount + bCount)

\* UPGMA_Matrix::cluster, the loop that rewrites row a and column a.
JoinedRows(a, b) ==
    [r \in DOMAIN rows |->
        [c \in DOMAIN rows[r] |->
            IF r = a /\ c < row_count /\ c # a /\ c # b THEN JoinedDistance(a, b, c)
            ELSE IF c = a /\ r < row_count /\ r # a /\ r # b THEN JoinedDistance(a, b, r)
            ELSE rows[r][c]]]

\* aLength = rows[b][a] * 0.5
JoinLengthWhole(a, b) == rows[b][a]

JoinLength(a, b) == rows[b][a] \div 2

\* UPGMA_Matrix::cluster: the tracker after clusters.addCluster(...)
ClusterClusters(a, b) ==
    addCluster(clusters, << <<rowToCluster[a], JoinLength(a, b)>>,
                            <<rowToCluster[b], JoinLength(a, b)>> >>)

\* UPGMA_Matrix::cluster: rowToCluster[a] = clusters.size()-1;
\*                        rowToCluster[b] = rowToCluster[row_count-1];
ClusterRowToClusterNoMove(a, b) == [rowToCluster EXCEPT ![a] = Len(clusters)]

ClusterRowToCluster(a, b) ==
    LET r1 == [rowToCluster EXCEPT ![a] = Len(clusters)]
    IN  [r1 EXCEPT ![b] = r1[row_count - 1]]

\* UPGMA_Matrix::cluster: the matrix after the loop and removeRowAndColumn(b)
ClusterRowsRemovingA(a, b) == removeRowAndColumn(JoinedRows(a, b), row_count, a)

ClusterRows(a, b) == removeRowAndColumn(JoinedRows(a, b), row_count, b)

\* The history entry of a call cluster(a, b).
JoinEntry(phase, a, b) ==
    [phase |-> phase, a |-> a, b |-> b,
     clusterA |-> rowToCluster[a], clusterB |-> rowToCluster[b],
     length |-> JoinLength(a, b), parent |-> Len(clusters),
     rowsBefore |-> row_count, matrixBefore |-> rows, mapBefore |-> rowToCluster]

\* UPGMA_Matrix::cluster(a, b) as a step.
clusterWithoutRemoval(phase, a, b) ==
    /\ rows' = JoinedRows(a, b)
    /\ clusters' = ClusterClusters(a, b)
    /\ rowToCluster' = [rowToCluster EXCEPT ![a] = Len(clusters)]
    /\ row_count' = row_count
    /\ joins' = Append(joins, JoinEntry(phase, a, b))

cluster(phase, a, b) ==
    /\ rows' = ClusterRows(a, b)
    /\ clusters' = ClusterClusters(a, b)
    /\ rowToCluster' = ClusterRowToCluster(a, b)
    /\ row_count' = row_count - 1
    /\ joins' = Append(joins, JoinEntry(phase, a, b))

----------------------------------------------------------------------------
(* Input matrices: symmetric, zero diagonal, one base distance everywhere  *)
(* except at up to two chosen pairs of taxa.                               *)

Pairs(n) == {p \in (0..(n - 1)) \X (0..(n - 1)) : p[1] < p[2]}

Overrides(n) == {<<>>} \cup {<<p[1], p[2], v>> : p \in Pairs(n), v \in EntryDistances}

Overridden(o, lo, hi) == o # <<>> /\ o[1] = lo /\ o[2] = hi

InputMatrix(n, base, o1, o2) ==
    [r \in 0..(n - 1) |->
        [c \in 0..(n - 1) |->
            IF r = c THEN 0
            ELSE LET lo == IF r < c THEN r ELSE c
                     hi == IF r < c THEN c ELSE r
                 IN  IF Overridden(o2, lo, hi) THEN o2[3]
                     ELSE IF Overridden(o1, lo, hi) THEN o1[3]
                     ELSE base]]

----------------------------------------------------------------------------
(* Loading *)

\* UPGMA_Matrix::setSize: rowToCluster after the call
setSizeWithoutClear(n) ==
    [r \in 0..(Cardinality(DOMAIN rowToCluster) + n - 1) |->
        IF r \in DOMAIN rowToCluster THEN rowToCluster[r]
        ELSE r - Cardinality(DOMAIN rowToCluster)]

setSize(n) == [r \in 0..(n - 1) |-> r]

\* UPGMA_Matrix::loadMatrix(names, matrix) with n names
loadMatrix(n, matrix) ==
    /\ pc = "new"
    /\ rank' = n
    /\ row_count' = n
    /\ rowToCluster' = setSize(n)
    /\ clusters' = [k \in 1..n |-> LeafCluster]
    /\ rows' = matrix
    /\ loadResult' = "true"
    /\ matrix_in' = matrix
    /\ pc' = "loaded"
    /\ UNCHANGED <<rowMinima, best, isRooted, vvc, vcIndex, i_dup, first_half,
                   second_half, cluster_to_row, dupes_removed, joins, finishCalls>>

LoadMatrix ==
    /\ pc = "new"
    /\ \E n \in 0..MaxN, base \in BaseDistances :
           \E o1 \in Overrides(n), o2 \in Overrides(n) :
               loadMatrix(n, InputMatrix(n, base, o1, o2))

\* UPGMA_Matrix::setIsRooted
setIsRooted(rootIt) ==
    /\ pc \in {"new", "loaded"}
    /\ isRooted' = rootIt
    /\ UNCHANGED <<pc, rank, row_count, rows, rowToCluster, clusters, rowMinima,
                   best, vvc, vcIndex, i_dup, first_half, second_half,
                   cluster_to_row, dupes_removed, loadResult, matrix_in, joins, finishCalls>>

SetIsRooted == \E rootIt \in BOOLEAN : rootIt # isRooted /\ setIsRooted(rootIt)

\* UPGMA_Matrix::loadMatrix(names, matrix) with n names on an object that is
\* new, loaded, or has returned from constructTree (ReloadSpec).  The
\* members loadMatrix does not assign (rowMinima, isRooted) keep their values;
\* the locals of the constructTree call that has returned are gone, and the
\* history starts again.
reloadMatrix(n, matrix) ==
    /\ rank' = n
    /\ row_count' = n
    /\ rowToCluster' = setSize(n)
    /\ clusters' = [k \in 1..n |-> LeafCluster]
    /\ rows' = matrix
    /\ loadResult' = "true"
    /\ matrix_in' = matrix
    /\ pc' = "loaded"
    /\ loads' = loads + 1
    /\ best' = DefaultPosition
    /\ vvc' = <<>>
    /\ vcIndex' = 0
    /\ i_dup' = 0
    /\ first_half' = 0
    /\ second_half' = 0
    /\ cluster_to_row' = <<>>
    /\ dupes_removed' = 0
    /\ joins' = <<>>
    /\ finishCalls' = 0
    /\ UNCHANGED <<rowMinima, isRooted, scanData, scalarPos, vectorPos, scanIter,
                   unitVars>>

ReloadMatrix ==
    /\ pc \in {"new", "loaded", "done"}
    /\ loads < MaxLoads
    /\ \E n \in 0..MaxN, base \in BaseDistances :
           reloadMatrix(n, InputMatrix(n, base, <<>>, <<>>))

----------------------------------------------------------------------------
(* The duplicate pass *)

\* Two live rows with the same content (HashRow compares whole rows).
SameRow(r1, r2) == \A c \in 0..(row_count - 1) : rows[r1][c] = rows[r2][c]

\* HashRow<T>::identifyDuplicateClusters: the sets of two or more live rows
\* with identical content, as sets of cluster numbers.
DuplicateGroups ==
    {g \in {{rowToCluster[r2] : r2 \in {r2 \in 0..(row_count - 1) : SameRow(r, r2)}} :
                r \in 0..(row_count - 1)} : Cardinality(g) > 1}

\* The orders in which a set can be listed.
Orderings(S) ==
    {f \in [1..Cardinality(S) -> S] : \A x, y \in DOMAIN f : x # y => f[x] # f[y]}

\* The lists of lists identifyDuplicateClusters may hand back: the order of
\* the groups and of the members of a group follows the row hashes and an
\* unstable sort.
DuplicateTaxa ==
    LET groups == DuplicateGroups
    IN  IF groups = {} THEN {<<>>}
        ELSE {v \in [1..Cardinality(groups) -> UNION {Orderings(g) : g \in groups}] :
                \E order \in Orderings(groups) :
                    \A k \in DOMAIN v : v[k] \in Orderings(order[k])}

\* joinUpDuplicateClusters, step 4: the map from cluster numbers to rows
InitialClusterToRow ==
    [c \in 1..Len(clusters) |->
        IF \E r \in 0..(row_count - 1) : rowToCluster[r] = c - 1
        THEN CHOOSE r \in 0..(row_count - 1) : rowToCluster[r] = c - 1
        ELSE -1]

\* constructTree up to the first duplicate set of joinUpDuplicateClusters
\* (prepareToConstructTree, calculateRowHashes, identifyDuplicateClusters).
constructTree(v) ==
    /\ pc = "loaded"
    /\ vvc' = v
    /\ best' = DefaultPosition
    /\ dupes_removed' = 0
    /\ IF v = <<>>
       THEN /\ pc' = "joining"
            /\ UNCHANGED <<cluster_to_row, vcIndex>>
       ELSE /\ pc' = "dup_set"
            /\ cluster_to_row' = InitialClusterToRow
            /\ vcIndex' = 1
    /\ UNCHANGED <<rank, row_count, rows, rowToCluster, clusters, rowMinima,
                   isRooted, i_dup, first_half, second_half, loadResult, matrix_in, joins,
                   finishCalls>>

ConstructTree == pc = "loaded" /\ \E v \in DuplicateTaxa : constructTree(v)

\* joinUpDuplicateClusters: for (std::vector<intptr_t>& vc : vvc) { ...
DupSet ==
    /\ pc = "dup_set"
    /\ IF vcIndex <= Len(vvc)
       THEN /\ dupes_removed' = dupes_removed + (Len(vvc[vcIndex]) - 1)
            /\ pc' = "dup_while"
       ELSE /\ pc' = "joining"
            /\ UNCHANGED dupes_removed
    /\ UNCHANGED <<rank, row_count, rows, rowToCluster, clusters, rowMinima, best,
                   isRooted, vvc, vcIndex, i_dup, first_half, second_half,
                   cluster_to_row, loadResult, matrix_in, joins, finishCalls>>

\* The guard of both loops of the duplicate pass: 3 < row_count
DupRoomStrict == 4 < row_count

DupRoomLoose == 2 < row_count

DupRoom == 3 < row_count

\* intptr_t second_half = vc.size() - first_half; //half, rounded up
SecondHalfRoundedDown(size) == size \div 2

SecondHalf(size) == size - (size \div 2)

\* joinUpDuplicateClusters: while (vc.size()>1 && 3<row_count) { ...
DupWhile ==
    /\ pc = "dup_while"
    /\ IF Len(vvc[vcIndex]) > 1 /\ DupRoom
       THEN /\ first_half' = Len(vvc[vcIndex]) \div 2
            /\ second_half' = SecondHalf(Len(vvc[vcIndex]))
            /\ i_dup' = 0
            /\ pc' = "dup_for"
            /\ UNCHANGED vcIndex
       ELSE /\ vcIndex' = vcIndex + 1
            /\ pc' = "dup_set"
            /\ UNCHANGED <<first_half, second_half, i_dup>>
    /\ UNCHANGED <<rank, row_count, rows, rowToCluster, clusters, rowMinima, best,
                   isRooted, vvc, cluster_to_row, dupes_removed, loadResult, matrix_in, joins,
                   finishCalls>>

\* cluster_to_row.push_back(row_a); cluster_to_row[cluster_x] = row_b;
ClusterToRowWithoutMove(row_a, row_b, cluster_x) == Append(cluster_to_row, row_a)

ClusterToRowAfterJoin(row_a, row_b, cluster_x) ==
    [Append(cluster_to_row, row_a) EXCEPT ![cluster_x + 1] = row_b]

\* joinUpDuplicateClusters: one pass of
\*   for (intptr_t i=0; i<first_half && 3<row_count; ++i) { ... }
\* or, when its condition fails, vc.resize(second_half).
DupFor ==
    /\ pc = "dup_for"
    /\ IF i_dup < first_half /\ DupRoom
       THEN LET vc == vvc[vcIndex]
                cluster_a == vc[i_dup + 1]
                cluster_b == vc[i_dup + second_half + 1]
                ra == cluster_to_row[cluster_a + 1]
                rb == cluster_to_row[cluster_b + 1]
                cluster_c == Len(clusters)
                cluster_x == rowToCluster[row_count - 1]
            IN  \E row_a \in {IF rb < ra THEN rb ELSE ra},
                   row_b \in {IF rb < ra THEN ra ELSE rb} :
                /\ cluster("dup", row_a, row_b)
                /\ vvc' = [vvc EXCEPT ![vcIndex][i_dup + 1] = cluster_c]
                /\ cluster_to_row' = ClusterToRowAfterJoin(row_a, row_b, cluster_x)
                /\ i_dup' = i_dup + 1
                /\ UNCHANGED pc
       ELSE /\ vvc' = [vvc EXCEPT ![vcIndex] = SubSeq(vvc[vcIndex], 1, second_half)]
            /\ pc' = "dup_while"
            /\ UNCHANGED <<rows, clusters, rowToCluster, row_count, joins,
                           cluster_to_row, i_dup>>
    /\ UNCHANGED <<rank, rowMinima, best, isRooted, vcIndex, first_half,
                   second_half, dupes_removed, loadResult, matrix_in, finishCalls>>

----------------------------------------------------------------------------
(* The Joining loop and the finishing step *)

\* int degree_of_root = isRooted ? 2 : 3;
DegreeIgnoringRoot == IF isRooted THEN 3 ELSE 3

degree_of_root == IF isRooted THEN 2 ELSE 3

\* constructTree: one pass of while ( degree_of_root < row_count ) { ... }
JoinRound ==
    /\ pc = "joining"
    /\ degree_of_root < row_count
    /\ \E b \in {getMinimumEntry(best)} :
           /\ rowMinima' = getRowMinima
           /\ best' = b
           /\ cluster("main", b.column, b.row)
    /\ UNCHANGED <<pc, rank, isRooted, vvc, vcIndex, i_dup, first_half,
                   second_half, cluster_to_row, dupes_removed, loadResult, matrix_in,
                   finishCalls>>

\* finishClustering: std::vector<T> weights; as declared, before the loops
weights == <<>>

\* finishClustering: the indices i of weights[i] in
\*   for (size_t i=0; i<row_count; ++i) { weights[i] = ...; }
\* (the second loop and the branch-length formulas use the same ones).
WeightsIndices == 0..(row_count - 1)

\* finishClustering: the <<cluster, length>> links of the last record, with
\* weights[i] = countOfExteriorNodes / (2 * denominator)
FinishLinks ==
    LET w(i) == countOfExteriorNodes(rowToCluster[i])
        denominator == IF row_count = 3 THEN w(0) + w(1) + w(2) ELSE w(0) + w(1)
    IN  IF row_count = 3
        THEN << <<rowToCluster[0],
                  (w(1) * rows[0][1] + w(2) * rows[0][2]) \div (2 * denominator)>>,
                <<rowToCluster[1],
                  (w(0) * rows[0][1] + w(2) * rows[1][2]) \div (2 * denominator)>>,
                <<rowToCluster[2],
                  (w(0) * rows[0][2] + w(1) * rows[1][2]) \div (2 * denominator)>> >>
        ELSE << <<rowToCluster[0], (w(1) * rows[0][1]) \div (2 * denominator)>>,
                <<rowToCluster[1], (w(0) * rows[0][1]) \div (2 * denominator)>> >>

FinishFrame ==
    UNCHANGED <<rank, rows, rowToCluster, rowMinima, best, isRooted, vvc, vcIndex,
                i_dup, first_half, second_half, cluster_to_row, dupes_removed,
                loadResult, matrix_in, joins>>

\* finishClustering: ASSERT( row_count == 2 || row_count == 3) fails.
FinishAssertFails ==
    /\ pc = "joining"
    /\ ~(degree_of_root < row_count)
    /\ ~(row_count = 2 \/ row_count = 3)
    /\ finishCalls' = finishCalls + 1
    /\ pc' = "aborted"
    /\ UNCHANGED <<row_count, clusters>>
    /\ FinishFrame

\* finishClustering: weights is an empty std::vector and weights[i] is written
\* and read all the same.  The access is out of bounds (undefined behaviour):
\* the call either ends the process there ...
FinishOutOfBoundsCrash ==
    /\ pc = "joining"
    /\ ~(degree_of_root < row_count)
    /\ (row_count = 2 \/ row_count = 3)
    /\ finishCalls' = finishCalls + 1
    /\ pc' = "crashed"
    /\ UNCHANGED <<row_count, clusters>>
    /\ FinishFrame

\* ... or goes on as if the three weights had storage, appends the last
\* record and sets row_count to 0; constructTree then returns true.
finishClustering ==
    /\ pc = "joining"
    /\ ~(degree_of_root < row_count)
    /\ (row_count = 2 \/ row_count = 3)
    /\ finishCalls' = finishCalls + 1
    /\ clusters' = addCluster(clusters, FinishLinks)
    /\ row_count' = 0
    /\ pc' = "done"
    /\ FinishFrame

----------------------------------------------------------------------------
(* getRowMinima's loop as OpenMP runs it (ParSpec): the iterations of       *)
(*   #pragma omp parallel for schedule(dynamic)                            *)
(*   for (row=1; row<row_count; ++row) { ... }                             *)
(* are taken up in any order; an iteration first scans its row into its    *)
(* own locals and then writes its slot of rowMinima.                       *)

ParFrame ==
    UNCHANGED <<rank, isRooted, vvc, vcIndex, i_dup, first_half, second_half,
                cluster_to_row, dupes_removed, loadResult, matrix_in, finishCalls,
                scanData, scalarPos, vectorPos, loads, unitVars>>

\* loadMatrix with the matrices ParSpec and FairSpec are run on: one base
\* distance and at most one overridden pair.
LoadMatrixOnePair ==
    /\ pc = "new"
    /\ \E n \in 0..MaxN, base \in BaseDistances :
           \E o1 \in Overrides(n) : loadMatrix(n, InputMatrix(n, base, o1, <<>>))

\* getMinimumEntry calls getRowMinima: rowMinima.resize(row_count);
\* rowMinima[0].value = infiniteDistance; then the parallel region opens.
ParScanBegin ==
    /\ pc = "joining"
    /\ degree_of_root < row_count
    /\ rowMinima' =
           [r \in 0..(row_count - 1) |->
               LET old == IF r \in DOMAIN rowMinima THEN rowMinima[r] ELSE DefaultPosition
               IN  IF r = 0 THEN [old EXCEPT !.value = infiniteDistance] ELSE old]
    /\ scanIter' = [row \in 1..(row_count - 1) |->
                        [at |-> "todo", pos |-> DefaultPosition]]
    /\ pc' = "scanning"
    /\ UNCHANGED <<row_count, rows, rowToCluster, clusters, best, joins>>
    /\ ParFrame

\* T bestVrc = (T)infiniteDistance; a local of the iteration
IterationBestVrcShared(row) == rowMinima[row - 1].value

IterationBestVrc(row) == infiniteDistance

\* One iteration up to its last statement: the scan of the row into the
\* locals bestColumn and bestVrc, and getImbalance.
ParScanRow(row) ==
    /\ pc = "scanning"
    /\ scanIter[row].at = "todo"
    /\ \E m \in {ScalarScan(rows[row], row, 0, 0, IterationBestVrc(row))} :
           scanIter' = [scanIter EXCEPT ![row] =
                           [at |-> "scanned",
                            pos |-> Position(row, m[1], m[2], getImbalance(row, m[1]))]]
    /\ UNCHANGED <<pc, row_count, rows, rowToCluster, clusters, rowMinima, best, joins>>
    /\ ParFrame

\* The iteration's last statement: rowMinima[row] = Position<T>(...)
ParWriteRow(row) ==
    /\ pc = "scanning"
    /\ scanIter[row].at = "scanned"
    /\ rowMinima' = [rowMinima EXCEPT ![row] = scanIter[row].pos]
    /\ scanIter' = [scanIter EXCEPT ![row] = [at |-> "done", pos |-> DefaultPosition]]
    /\ UNCHANGED <<pc, row_count, rows, rowToCluster, clusters, best, joins>>
    /\ ParFrame

\* Every iteration has ended (the parallel region's barrier).
ParScanDone == pc = "scanning" /\ \A row \in DOMAIN scanIter : scanIter[row].at = "done"

\* The rest of getMinimumEntry and the call cluster(best.column, best.row).
ParJoin ==
    /\ ParScanDone
    /\ \E b \in {ReduceMinima(rowMinima, 0, [best EXCEPT !.value = infiniteDistance])} :
           /\ best' = b
           /\ cluster("main", b.column, b.row)
    /\ scanIter' = <<>>
    /\ pc' = "joining"
    /\ UNCHANGED <<rowMinima, rank, isRooted, vvc, vcIndex, i_dup, first_half,
                   second_half, cluster_to_row, dupes_removed, loadResult, matrix_in,
                   finishCalls, scanData, scalarPos, vectorPos, loads, unitVars>>

----------------------------------------------------------------------------
(* The two row scanners on one row (ScanSpec) *)

\* VectorizedUPGMA_Matrix::calculateRowTotals sizes scratchColumnNumbers and
\* fills it with 0.0; nothing writes to it afterwards.
scratchColumnNumbers(k) == 0

Lanes == 0..(blockSize - 1)

\* The lane sweep:
\*   for (col=0; col+blockSize<row; col+=blockSize) { ... select ... }
\* on lanes <<minVector, ixVector>>.
RECURSIVE LaneSweep(_, _, _, _, _)
LaneSweep(rowData, row, col, minVector, ixVector) ==
    IF ~(col + blockSize < row) THEN <<col, minVector, ixVector>>
    ELSE LET less == [c \in Lanes |-> rowData[col + c] < minVector[c]]
         IN  LaneSweep(rowData, row, col + blockSize,
                 [c \in Lanes |-> IF less[c] THEN rowData[col + c] ELSE minVector[c]],
                 [c \in Lanes |-> IF less[c] THEN scratchColumnNumbers(col + c)
                                  ELSE ixVector[c]])

\* "Extract minimum and column number": lanes c..blockSize-1 into pos.
RECURSIVE LaneReduce(_, _, _, _)
LaneReduce(minVector, ixVector, c, pos) ==
    IF c >= blockSize THEN pos
    ELSE LaneReduce(minVector, ixVector, c + 1,
             IF minVector[c] < pos.value
             THEN [pos EXCEPT !.value = minVector[c], !.column = ixVector[c]]
             ELSE pos)

\* The scalar tail: for (; col<row; ++col) { ... }
RECURSIVE VectorTail(_, _, _, _)
VectorTail(rowData, row, col, pos) ==
    IF col >= row THEN pos
    ELSE VectorTail(rowData, row, col + 1,
             IF rowData[col] < pos.value
             THEN [pos EXCEPT !.column = col, !.value = rowData[col]]
             ELSE pos)

\* VectorizedUPGMA_Matrix::getRowMinima for one row (imbalance left at 0).
VectorizedRowMinimum(rowData, row) ==
    LET swept == LaneSweep(rowData, row, 0,
                           [c \in Lanes |-> infiniteDistance], [c \in Lanes |-> -1])
        lanes == LaneReduce(swept[2], swept[3], 0, Position(row, 0, infiniteDistance, 0))
    IN  VectorTail(rowData, row, swept[1], lanes)

\* UPGMA_Matrix::getRowMinima for one row (imbalance left at 0).
ScalarRowMinimum(rowData, row) ==
    LET m == ScalarScan(rowData, row, 0, 0, infiniteDistance)
    IN  Position(row, m[1], m[2], 0)

\* The rows the scanners are tried on: columns 0..len-1, the smallest entry at
\* column p, the next at column q (a tie with p when v = 1), the rest larger
\* and distinct.
ScanRows ==
    {[col \in 0..(len - 1) |-> IF col = pq[1] THEN 1
                               ELSE IF col = pq[2] THEN v ELSE 10 + col] :
        pq \in UNION {(0..(len - 1)) \X (0..(len - 1)) : len \in 1..MaxScanRow},
        v \in {1, 2}, len \in 1..MaxScanRow}

ScanScalar ==
    /\ scalarPos = <<>>
    /\ scalarPos' = <<ScalarRowMinimum(scanData, Cardinality(DOMAIN scanData))>>
    /\ UNCHANGED <<scanData, vectorPos, scanIter, loads, unitVars, treeVars>>

ScanVectorized ==
    /\ vectorPos = <<>>
    /\ vectorPos' = <<VectorizedRowMinimum(scanData, Cardinality(DOMAIN scanData))>>
    /\ UNCHANGED <<scanData, scalarPos, scanIter, loads, unitVars, treeVars>>

----------------------------------------------------------------------------
(* Specifications *)

\* The state of a freshly constructed UPGMA_Matrix.
TreeInit ==
    /\ pc = "new"
    /\ rank = 0
    /\ row_count = 0
    /\ rows = <<>>
    /\ rowToCluster = <<>>
    /\ clusters = <<>>
    /\ rowMinima = <<>>
    /\ best = DefaultPosition
    /\ isRooted = FALSE
    /\ vvc = <<>>
    /\ vcIndex = 0
    /\ i_dup = 0
    /\ first_half = 0
    /\ second_half = 0
    /\ cluster_to_row = <<>>
    /\ dupes_removed = 0
    /\ loadResult = "none"
    /\ matrix_in = <<>>
    /\ joins = <<>>
    /\ finishCalls = 0

Init ==
    /\ TreeInit
    /\ scanData = <<>>
    /\ scalarPos = <<>>
    /\ vectorPos = <<>>
    /\ scanIter = <<>>
    /\ loads = 0
    /\ heuristic = <<>>
    /\ wrapper = <<>>
    /\ invar = <<>>

Next ==
    \/ (LoadMatrix /\ UNCHANGED scanVars)
    \/ (SetIsRooted /\ UNCHANGED scanVars)
    \/ (ConstructTree /\ UNCHANGED scanVars)
    \/ (DupSet /\ UNCHANGED scanVars)
    \/ (DupWhile /\ UNCHANGED scanVars)
    \/ (DupFor /\ UNCHANGED scanVars)
    \/ (JoinRound /\ UNCHANGED scanVars)
    \/ (FinishAssertFails /\ UNCHANGED scanVars)
    \/ (FinishOutOfBoundsCrash /\ UNCHANGED scanVars)
    \/ (finishClustering /\ UNCHANGED scanVars)

Spec == Init /\ [][Next]_vars

\* The steps constructTree takes by itself once it has been called: the
\* calling thread runs its loops to the end.
ConstructTreeStep ==
    \/ (DupSet /\ UNCHANGED scanVars)
    \/ (DupWhile /\ UNCHANGED scanVars)
    \/ (DupFor /\ UNCHANGED scanVars)
    \/ (JoinRound /\ UNCHANGED scanVars)
    \/ (FinishAssertFails /\ UNCHANGED scanVars)
    \/ (FinishOutOfBoundsCrash /\ UNCHANGED scanVars)
    \/ (finishClustering /\ UNCHANGED scanVars)

FairNext ==
    \/ (LoadMatrixOnePair /\ UNCHANGED scanVars)
    \/ (SetIsRooted /\ UNCHANGED scanVars)
    \/ (ConstructTree /\ UNCHANGED scanVars)
    \/ ConstructTreeStep

FairSpec == Init /\ [][FairNext]_vars /\ WF_vars(ConstructTreeStep)

ScanInit ==
    /\ TreeInit
    /\ scanData \in ScanRows
    /\ scalarPos = <<>>
    /\ vectorPos = <<>>
    /\ scanIter = <<>>
    /\ loads = 0
    /\ heuristic = <<>>
    /\ wrapper = <<>>
    /\ invar = <<>>

ScanNext == ScanScalar \/ ScanVectorized

ScanSpec == ScanInit /\ [][ScanNext]_vars

ParNext ==
    \/ (LoadMatrixOnePair /\ UNCHANGED scanVars)
    \/ (SetIsRooted /\ UNCHANGED scanVars)
    \/ (ConstructTree /\ UNCHANGED scanVars)
    \/ (DupSet /\ UNCHANGED scanVars)
    \/ (DupWhile /\ UNCHANGED scanVars)
    \/ (DupFor /\ UNCHANGED scanVars)
    \/ ParScanBegin
    \/ (\E row \in DOMAIN scanIter : ParScanRow(row))
    \/ (\E row \in DOMAIN scanIter : ParWriteRow(row))
    \/ ParJoin
    \/ (FinishAssertFails /\ UNCHANGED scanVars)
    \/ (FinishOutOfBoundsCrash /\ UNCHANGED scanVars)
    \/ (finishClustering /\ UNCHANGED scanVars)

ParSpec == Init /\ [][ParNext]_vars

ReloadNext ==
    \/ ReloadMatrix
    \/ (SetIsRooted /\ UNCHANGED scanVars)
    \/ (ConstructTree /\ UNCHANGED scanVars)
    \/ (DupSet /\ UNCHANGED scanVars)
    \/ (DupWhile /\ UNCHANGED scanVars)
    \/ (DupFor /\ UNCHANGED scanVars)
    \/ (JoinRound /\ UNCHANGED scanVars)
    \/ (FinishAssertFails /\ UNCHANGED scanVars)
    \/ (FinishOutOfBoundsCrash /\ UNCHANGED scanVars)
    \/ (finishClustering /\ UNCHANGED scanVars)

ReloadSpec == Init /\ [][ReloadNext]_vars

----------------------------------------------------------------------------
(* BaseballSearchHeuristic::prepareToFilter of                             *)
(* src/placement/searchheuristic.cpp (FilterSpec): the loops that fill the *)
(* scores matrix, one step per assignment to scoreRow.                     *)

\* Every variable of the other specifications at its initial value.
NoScan ==
    /\ scanData = <<>>
    /\ scalarPos = <<>>
    /\ vectorPos = <<>>
    /\ scanIter = <<>>
    /\ loads = 0

\* The calls prepareToFilter(tree, targets, startTarget, stopTarget, taxa,
\* startTaxon, stopTaxon) at their entry: t and c are the loop variables,
\* written the cells of scores assigned so far.
FilterCalls ==
    {[startTarget |-> ta[1], stopTarget |-> ta[2],
      startTaxon |-> tx[1], stopTaxon |-> tx[2],
      target_base |-> ta[1], taxon_base |-> tx[1],
      t |-> ta[1], c |-> tx[1], written |-> {}] :
        ta \in {p \in (0..MaxIndex) \X (0..MaxIndex) : p[1] <= p[2]},
        tx \in {p \in (0..MaxIndex) \X (0..MaxIndex) : p[1] <= p[2]}}

\* scoreRow[c] = p.score: the column of the row that is assigned
ScoreColumn(c, startTaxon) == c

\* double* scoreRow = scores.getRow(t-startTarget): the row that is assigned
ScoreRow(t, startTarget) == t - startTarget

\* One pass of for (size_t c = startTaxon; c<stopTaxon; ++c ) { ... }
FilterScore ==
    /\ heuristic # <<>>
    /\ heuristic.t < heuristic.stopTarget
    /\ heuristic.c < heuristic.stopTaxon
    /\ heuristic' =
           [heuristic EXCEPT
               !.written = @ \cup {[row |-> ScoreRow(heuristic.t, heuristic.startTarget),
                                    column |-> ScoreColumn(heuristic.c, heuristic.startTaxon),
                                    taxon |-> heuristic.c]},
               !.c = @ + 1]
    /\ UNCHANGED <<treeVars, scanData, scalarPos, vectorPos, scanIter, loads,
                   wrapper, invar>>

\* The end of the inner loop: ++t of
\*   for (size_t t = startTarget; t<stopTarget; ++t ) { ... }
FilterNextTarget ==
    /\ heuristic # <<>>
    /\ heuristic.t < heuristic.stopTarget
    /\ ~(heuristic.c < heuristic.stopTaxon)
    /\ heuristic' = [heuristic EXCEPT !.t = @ + 1, !.c = heuristic.startTaxon]
    /\ UNCHANGED <<treeVars, scanData, scalarPos, vectorPos, scanIter, loads,
                   wrapper, invar>>

FilterInit ==
    /\ TreeInit
    /\ NoScan
    /\ heuristic \in FilterCalls
    /\ wrapper = <<>>
    /\ invar = <<>>

FilterNext == FilterScore \/ FilterNextTarget

FilterSpec == FilterInit /\ [][FilterNext]_vars

----------------------------------------------------------------------------
(* YAMLRateModelWrapper<R> of src/model/yamlmodelwrapper.h (WrapperSpec):  *)
(* the parameter types setBounds, getVariables and setVariables hand to    *)
(* model_info, in the order of the calls.                                  *)

\* A wrapper after its constructor. The three predicates are those of the
\* rate model R the wrapper is built over (using super::isOptimizing...);
\* R = RateInvar answers FALSE for shapes and rates and !fix_p_invar for
\* proportions. bounds, updated and read hold the types of the last call of
\* setBounds, getVariables and setVariables, called which of them ran.
Wrappers ==
    {[isOptimizingShapes |-> f[1],
      isOptimizingProportions |-> f[2],
      isOptimizingRates |-> f[3],
      number_of_variable_shapes |-> n[1],
      number_of_variable_proportions |-> n[2],
      number_of_variable_rates |-> n[3],
      number_of_variables |-> (IF f[1] THEN n[1] ELSE 0)
                              + (IF f[2] THEN n[2] ELSE 0)
                              + (IF f[3] THEN n[3] ELSE 0),
      bounds |-> <<>>, updated |-> <<>>, read |-> <<>>, called |-> {}] :
        f \in BOOLEAN \X BOOLEAN \X BOOLEAN,
        n \in (0..MaxVariables) \X (0..MaxVariables) \X (0..MaxVariables)}

getNDim(w) ==
    (IF w.isOptimizingShapes THEN w.number_of_variable_shapes ELSE 0)
    + (IF w.isOptimizingProportions THEN w.number_of_variable_proportions ELSE 0)
    + (IF w.isOptimizingRates THEN w.number_of_variable_rates ELSE 0)

\* The condition under which setBounds pushes ModelParameterType::RATE
SetBoundsRateCondition(w) == w.isOptimizingProportions

\* The vector types that setBounds hands to model_info.setBounds
SetBoundsTypes(w) ==
    (IF w.isOptimizingShapes THEN <<"SHAPE">> ELSE <<>>)
    \o (IF w.isOptimizingProportions
           THEN <<"PROPORTION", "INVARIANT_PROPORTION">> ELSE <<>>)
    \o (IF SetBoundsRateCondition(w) THEN <<"RATE">> ELSE <<>>)

\* The types of the calls of updateModelVariablesByType in getVariables
GetVariablesTypes(w) ==
    (IF w.isOptimizingShapes THEN <<"SHAPE">> ELSE <<>>)
    \o (IF w.isOptimizingProportions
           THEN <<"PROPORTION", "INVARIANT_PROPORTION">> ELSE <<>>)
    \o (IF w.isOptimizingRates THEN <<"RATE">> ELSE <<>>)

\* The types of the calls of readModelVariablesByType in setVariables
SetVariablesTypes(w) ==
    (IF w.isOptimizingShapes THEN <<"SHAPE">> ELSE <<>>)
    \o (IF w.isOptimizingProportions
           THEN <<"PROPORTION", "INVARIANT_PROPORTION">> ELSE <<>>)
    \o (IF w.isOptimizingRates THEN <<"RATE">> ELSE <<>>)

WrapperFrame ==
    UNCHANGED <<treeVars, scanData, scalarPos, vectorPos, scanIter, loads,
                heuristic, invar>>

WrapperSetBounds ==
    /\ wrapper # <<>>
    /\ "setBounds" \notin wrapper.called
    /\ wrapper' = [wrapper EXCEPT !.number_of_variables = getNDim(wrapper),
                                  !.bounds = SetBoundsTypes(wrapper),
                                  !.called = @ \cup {"setBounds"}]
    /\ WrapperFrame

WrapperGetVariables ==
    /\ wrapper # <<>>
    /\ "getVariables" \notin wrapper.called
    /\ wrapper' = [wrapper EXCEPT !.number_of_variables = getNDim(wrapper),
                                  !.updated = GetVariablesTypes(wrapper),
                                  !.called = @ \cup {"getVariables"}]
    /\ WrapperFrame

WrapperSetVariables ==
    /\ wrapper # <<>>
    /\ "setVariables" \notin wrapper.called
    /\ wrapper' = [wrapper EXCEPT !.number_of_variables = getNDim(wrapper),
                                  !.read = SetVariablesTypes(wrapper),
                                  !.called = @ \cup {"setVariables"}]
    /\ WrapperFrame

WrapperInit ==
    /\ TreeInit
    /\ NoScan
    /\ heuristic = <<>>
    /\ wrapper \in Wrappers
    /\ invar = <<>>

WrapperNext == WrapperSetBounds \/ WrapperGetVariables \/ WrapperSetVariables

WrapperSpec == WrapperInit /\ [][WrapperNext]_vars

----------------------------------------------------------------------------
(* RateInvar::defaultInvariantProportion of src/model/rateinvar.cpp        *)
(* (InvarSpec). Proportions are counted in halves of MIN_PINVAR, so that   *)
(* p_invar*0.5 is exact.                                                   *)

MIN_PINVAR == 2

\* The proportions of the model: the whole multiples of MIN_PINVAR
Proportions == {MIN_PINVAR * k : k \in 0..MaxProportion}

\* A member that no statement has assigned yet
Unassigned == 0 - 1

Max(x, y) == IF x < y THEN y ELSE x

\* phylo_tree: the null pointer, or a tree whose alignment has the given
\* frac_const_sites
Trees == {[null |-> TRUE, frac_const_sites |-> 0]}
         \cup {[null |-> FALSE, frac_const_sites |-> f] : f \in Proportions}

\* The object at the call defaultInvariantProportion(p_invar_requested) made
\* by a constructor, after phylo_tree = tree
InvarCalls ==
    {[phylo_tree |-> tree,
      p_invar_requested |-> requested,
      optimize_from_given_params |-> given,
      p_invar |-> Unassigned, fix_p_invar |-> FALSE,
      minimum |-> Unassigned, maximum |-> Unassigned,
      tolerance |-> "unassigned",
      dereferenced_null |-> FALSE, at |-> "entry"] :
        tree \in Trees, requested \in Proportions, given \in BOOLEAN}

\* Lines 23-33: the value given to p_invar
DefaultPInvar(tree, p_invar_requested) ==
    IF 0 # p_invar_requested
        THEN p_invar_requested
        ELSE IF ~tree.null
            THEN IF tree.frac_const_sites # 0
                    THEN Max(tree.frac_const_sites \div 2, MIN_PINVAR)
                    ELSE tree.frac_const_sites
            ELSE MIN_PINVAR

InvarFrame ==
    UNCHANGED <<treeVars, scanData, scalarPos, vectorPos, scanIter, loads,
                heuristic, wrapper>>

\* Lines 23-39: p_invar, fix_p_invar and minimum
InvarAssign ==
    /\ invar # <<>>
    /\ invar.at = "entry"
    /\ \E p \in {DefaultPInvar(invar.phylo_tree, invar.p_invar_requested)} :
           invar' = [invar EXCEPT
                        !.p_invar = p,
                        !.fix_p_invar = IF 0 < p
                                           THEN ~invar.optimize_from_given_params
                                           ELSE FALSE,
                        !.minimum = MIN_PINVAR,
                        !.at = "maximum"]
    /\ InvarFrame

\* Lines 40-41 with a tree: maximum = phylo_tree->aln->frac_const_sites
InvarMaximum ==
    /\ invar # <<>>
    /\ invar.at = "maximum"
    /\ ~invar.phylo_tree.null
    /\ invar' = [invar EXCEPT !.maximum = invar.phylo_tree.frac_const_sites,
                              !.tolerance = "TOL_PINVAR",
                              !.at = "returned"]
    /\ InvarFrame

\* Line 40 with phylo_tree == nullptr: the read through the null pointer is
\* undefined; the process is stopped at it
InvarMaximumCrash ==
    /\ invar # <<>>
    /\ invar.at = "maximum"
    /\ invar.phylo_tree.null
    /\ invar' = [invar EXCEPT !.dereferenced_null = TRUE, !.at = "crashed"]
    /\ InvarFrame

\* Line 40 with phylo_tree == nullptr: the read through the null pointer is
\* undefined; it yields some value and the call goes on
InvarMaximumAnyValue ==
    /\ invar # <<>>
    /\ invar.at = "maximum"
    /\ invar.phylo_tree.null
    /\ \E value \in Proportions :
           invar' = [invar EXCEPT !.dereferenced_null = TRUE,
                                  !.maximum = value,
                                  !.tolerance = "TOL_PINVAR",
                                  !.at = "returned"]
    /\ InvarFrame

InvarInit ==
    /\ TreeInit
    /\ NoScan
    /\ heuristic = <<>>
    /\ wrapper = <<>>
    /\ invar \in InvarCalls

InvarNext ==
    \/ InvarAssign
    \/ InvarMaximum
    \/ InvarMaximumCrash
    \/ InvarMaximumAnyValue

InvarSpec == InvarInit /\ [][InvarNext]_vars

----------------------------------------------------------------------------
(* Properties *)

\* constructTree is between loadMatrix and the finishing step.
BeforeFinish == pc \in {"loaded", "dup_set", "dup_while", "dup_for", "joining"}

\* The records appended by joins and by the finishing step.
InternalRecords == {k \in 1..Len(clusters) : clusters[k].children # <<>>}

LeafRecords == {k \in 1..Len(clusters) : clusters[k].children = <<>>}

\* The last record of the tracker.
LastRecord == clusters[Len(clusters)]

JoinsOf(phase) == {k \in 1..Len(joins) : joins[k].phase = phase}

RECURSIVE LeafSum(_)
LeafSum(r) ==
    IF r >= row_count THEN 0
    ELSE countOfExteriorNodes(rowToCluster[r]) + LeafSum(r + 1)

\* Taxa i and j were loaded with identical rows.
InputDuplicates(i, j) == i # j /\ matrix_in[i] = matrix_in[j]

\* C1: for N >= 3, when constructTree returns the tracker holds the N leaf
\* records and exactly N-1 internal records if isRooted, N-2 if not, whether
\* or not the duplicate pass joined anything.
C1_InternalRecordCount ==
    (pc = "done" /\ rank >= 3) =>
        /\ Cardinality(LeafRecords) = rank
        /\ Cardinality(InternalRecords) = (IF isRooted THEN rank - 1 ELSE rank - 2)

C1_Witness ==
    /\ pc = "done"
    /\ rank = MaxN
    /\ ~isRooted
    /\ JoinsOf("dup") # {}
    /\ JoinsOf("main") # {}

\* C2: every call cluster(a, b) made during constructTree, from the duplicate
\* pass or from the Joining loop, has a < b.
C2_ColumnBelowRow == \A k \in 1..Len(joins) : joins[k].a < joins[k].b

\* C3: between loadMatrix and the finishing step the leaf counts of the
\* clusters at the live rows add up to N.
C3_LeafCountConserved == BeforeFinish => LeafSum(0) = rank

\* C4: when two rows' candidates in rowMinima carry the same minimal value,
\* getMinimumEntry returns one with the smallest imbalance among them.
C4_TieBrokenByImbalance ==
    (JoinsOf("main") # {} /\ best.value < infiniteDistance) =>
        \A r \in DOMAIN rowMinima :
            (r >= 1 /\ rowMinima[r].value = best.value)
                => best.imbalance <= rowMinima[r].imbalance

\* No two entries of the scanned row are equal.
NoTies(rowData) == \A c, d \in DOMAIN rowData : c # d => rowData[c] # rowData[d]

\* C5: on a row without equal entries the wide-lane scanner finds the same
\* (row, column, value) as the scalar scanner, also on rows longer than one
\* lane block.
C5_ScannersAgree ==
    (scalarPos # <<>> /\ vectorPos # <<>> /\ NoTies(scanData)) =>
        /\ scalarPos[1].row = vectorPos[1].row
        /\ scalarPos[1].column = vectorPos[1].column
        /\ scalarPos[1].value = vectorPos[1].value

\* The matrix of scenario A: 1-2:2, 1-3:4, 1-4:4, 2-3:4, 2-4:4, 3-4:6
\* (taxon k of the scenario is row k-1).
ScenarioA == InputMatrix(4, 4 * Scale, <<0, 1, 2 * Scale>>, <<2, 3, 6 * Scale>>)

C7_DuplicatesFirst ==
    /\ \A j, k \in 1..Len(joins) :
           (j < k /\ joins[j].phase = "main") => joins[k].phase = "main"
    /\ (rank > 3 /\ (\E i, j \in 0..(rank - 1) : InputDuplicates(i, j))) =>
           /\ pc \in {"joining", "done", "crashed", "aborted"} => Len(joins) >= 1
           /\ Len(joins) >= 1 =>
                  /\ joins[1].phase = "dup"
                  /\ InputDuplicates(joins[1].clusterA, joins[1].clusterB)

C7_Witness ==
    /\ rank = MaxN
    /\ InputDuplicates(2, 3)
    /\ \A i, j \in 0..(rank - 1) : InputDuplicates(i, j) => {i, j} = {2, 3}
    /\ Len(joins) >= 2
    /\ joins[1].phase = "dup"
    /\ {joins[1].clusterA, joins[1].clusterB} = {2, 3}
    /\ joins[2].phase = "main"

\* C8: an unrooted construction of exactly 3 taxa makes no join and goes
\* straight to the finishing step, which appends exactly one internal record
\* with three children.
C8_UnrootedThree ==
    (rank = 3 /\ ~isRooted /\ pc \in {"joining", "done", "crashed", "aborted"}) =>
        /\ joins = <<>>
        /\ pc # "joining" =>
               /\ finishCalls = 1
               /\ Cardinality(InternalRecords) = 1
               /\ Len(LastRecord.children) = 3

C10_TooFewRejected ==
    (pc # "new" /\ Cardinality(DOMAIN matrix_in) < 3) =>
        /\ loadResult = "false"
        /\ row_count = 0
        /\ rowToCluster = <<>>
        /\ clusters = <<>>
        /\ joins = <<>>
        /\ finishCalls = 0
        /\ pc \notin {"done", "crashed"}

\* constructTree is inside the duplicate pass or the Joining loop.
InConstructTree == pc \in {"dup_set", "dup_while", "dup_for", "joining"}

\* Every off-diagonal entry of the loaded matrix is the sentinel.
AllInfiniteInput ==
    \A r, c \in DOMAIN matrix_in : r # c => matrix_in[r][c] = infiniteDistance

\* C11: constructTree terminates for every input of N >= 3 taxa, all-zero
\* matrices and matrices with entries not below the sentinel included: every
\* pass of the duplicate loop and of the Joining loop that joins takes
\* row_count down by exactly one, row_count changes in no other way before
\* the finishing step, and the finishing step is eventually entered.
C11_Terminates ==
    /\ [][/\ joins' # joins =>
               (Len(joins') = Len(joins) + 1 /\ row_count' = row_count - 1)
          /\ (InConstructTree /\ row_count' # row_count) =>
               (joins' # joins \/ finishCalls' = finishCalls + 1)]_vars
    /\ ((rank >= 3 /\ InConstructTree) ~> (finishCalls >= 1))

C11_Witness ==
    /\ rank = MaxN
    /\ AllInfiniteInput
    /\ ~isRooted
    /\ finishCalls = 1
    /\ Len(joins) = rank - 3

\* The Joining loop has ended and finishClustering is about to be entered.
AtFinish == pc = "joining" /\ ~(degree_of_root < row_count)

\* C12: for N >= 3 the finishing step is entered exactly once, with
\* row_count 2 if isRooted and 3 if not (so its assertion holds), and it
\* appends a last record with that many children and leaves row_count at 0.
C12_FinishedOnce ==
    (rank >= 3 /\ pc \notin {"new", "loaded"}) =>
        /\ finishCalls <= 1
        /\ pc # "aborted"
        /\ AtFinish => (finishCalls = 0 /\ row_count = (IF isRooted THEN 2 ELSE 3))
        /\ finishCalls = 1 =>
               /\ row_count = 0
               /\ Len(LastRecord.children) = (IF isRooted THEN 2 ELSE 3)

\* The cluster numbers that are a child of some record of the tracker.
ChildClusters ==
    UNION {{clusters[k].children[j][1] : j \in DOMAIN clusters[k].children} :
              k \in 1..Len(clusters)}

\* The cluster numbers at the live rows.
LiveClusters == {rowToCluster[r] : r \in 0..(row_count - 1)}

\* C13: between loadMatrix and the finishing step rowToCluster is injective
\* on the live rows and the clusters at the live rows are exactly the
\* clusters that are not yet a child of another record.
C13_LiveRows ==
    BeforeFinish =>
        /\ \A r1, r2 \in 0..(row_count - 1) :
               r1 # r2 => rowToCluster[r1] # rowToCluster[r2]
        /\ LiveClusters = (0..(Len(clusters) - 1)) \ ChildClusters

\* C14: the iterations of getRowMinima's parallel loop may run in any order
\* and interleaving: a slot of rowMinima once written holds what the
\* in-order loop writes there and no other iteration disturbs it, and when
\* all iterations have ended rowMinima and the Position getMinimumEntry
\* chooses from it (hence the join) are those of the in-order loop.
C14_ScheduleIndependent ==
    pc = "scanning" =>
        /\ \A row \in DOMAIN scanIter :
               scanIter[row].at = "done" => rowMinima[row] = getRowMinima[row]
        /\ ParScanDone =>
               /\ rowMinima = getRowMinima
               /\ ReduceMinima(rowMinima, 0, [best EXCEPT !.value = infiniteDistance])
                      = getMinimumEntry(best)

\* In a round after a join, row 3 has been written while row 2 is scanned
\* but not written and row 1 has not been taken up.
C14_Witness ==
    /\ pc = "scanning"
    /\ row_count >= 4
    /\ joins # <<>>
    /\ scanIter[3].at = "done"
    /\ scanIter[2].at = "scanned"
    /\ scanIter[1].at = "todo"
    /\ rowMinima[3].imbalance > 0

\* The call joins[k] had a < b < row_count.
ProperJoin(k) == joins[k].a < joins[k].b /\ joins[k].b < joins[k].rowsBefore

\* C15: a call cluster(a, b) with a < b < row_count appends exactly one
\* record, whose two children are the clusters that were at rows a and b,
\* both with branch length matrix[b][a] / 2; after it rowToCluster[a] is the
\* new record (clusters.size()-1), rowToCluster[b] is the cluster that was at
\* the last live row when b was not that row, and row_count is one less.
C15_JoinEffect ==
    \A k \in 1..Len(joins) :
        ProperJoin(k) =>
            LET j == joins[k]
                half == j.matrixBefore[j.b][j.a] \div 2
            IN  /\ j.parent = rank + k - 1
                /\ clusters[j.parent + 1].children =
                       << <<j.mapBefore[j.a], half>>, <<j.mapBefore[j.b], half>> >>
                /\ (k = Len(joins) /\ BeforeFinish) =>
                       /\ Len(clusters) = j.parent + 1
                       /\ rowToCluster[j.a] = Len(clusters) - 1
                       /\ j.b # j.rowsBefore - 1 =>
                              rowToCluster[j.b] = j.mapBefore[j.rowsBefore - 1]
                       /\ row_count = j.rowsBefore - 1

\* A join of the Joining loop at rows a < b with b not the last live row and
\* a positive distance, after an earlier join.
C15_Witness ==
    /\ BeforeFinish
    /\ Len(joins) >= 2
    /\ ProperJoin(Len(joins))
    /\ joins[Len(joins)].phase = "main"
    /\ joins[Len(joins)].b < joins[Len(joins)].rowsBefore - 1
    /\ joins[Len(joins)].length > 0

\* The live window of the matrix is symmetric.
LiveSymmetric ==
    \A r, c \in 0..(row_count - 1) : rows[r][c] = rows[c][r]

\* Where the row that was at x before the call joins[k] is after it:
\* removeRowAndColumn(b) moves the last live row to b.
RowAfterJoin(k, x) == IF x = joins[k].rowsBefore - 1 THEN joins[k].b ELSE x

\* The size-weighted average of the distances from rows a and b to row x in
\* the matrix as it was before the call joins[k].
WeightedAverage(k, x) ==
    LET j == joins[k]
        countA == clusters[j.clusterA + 1].countOfExteriorNodes
        countB == clusters[j.clusterB + 1].countOfExteriorNodes
    IN  (countA * j.matrixBefore[j.a][x] + countB * j.matrixBefore[j.b][x])
            \div (countA + countB)

\* The state after the call joins[k] holds the averaged distances at both
\* mirrored positions.
JoinDistancesStored(k) ==
    \A x \in 0..(joins[k].rowsBefore - 1) :
        (x # joins[k].a /\ x # joins[k].b) =>
            /\ rows[joins[k].a][RowAfterJoin(k, x)] = WeightedAverage(k, x)
            /\ rows[RowAfterJoin(k, x)][joins[k].a] = WeightedAverage(k, x)

\* C16: after cluster(a, b) the distance between the merged cluster and every
\* other live cluster x is (countA*D(a,x) + countB*D(b,x)) / (countA + countB),
\* stored at both mirrored positions, and the live window of a symmetric
\* input matrix is symmetric after every join.
C16_JoinDistances ==
    (BeforeFinish /\ joins # <<>>) =>
        /\ JoinDistancesStored(Len(joins))
        /\ LiveSymmetric

\* The last call of cluster was made by the Joining loop: rowMinima and best
\* are those of its round, computed on joins[Len(joins)].matrixBefore.
AfterJoinRound == joins # <<>> /\ joins[Len(joins)].phase = "main"

\* The smallest of M[r][0..r-1].
RowMinimum(M, r) ==
    CHOOSE v \in {M[r][c] : c \in 0..(r - 1)} : \A c \in 0..(r - 1) : v <= M[r][c]

\* |x - y|
AbsDiff(x, y) == IF x < y THEN y - x ELSE x - y

\* C17: after getRowMinima, for every row r in [1, row_count), rowMinima[r]
\* has row r, a column c < r at which the row has its minimum over the
\* columns 0..r-1, that minimum as value, and the difference of the leaf
\* counts of the clusters at r and c as imbalance; rowMinima[0] has the
\* sentinel value and row = column, and getMinimumEntry never returns it.
C17_ScannerContract ==
    AfterJoinRound =>
        LET j == joins[Len(joins)]
            M == j.matrixBefore
            leafCount(r) == clusters[j.mapBefore[r] + 1].countOfExteriorNodes
        IN  /\ DOMAIN rowMinima = 0..(j.rowsBefore - 1)
            /\ \A r \in 1..(j.rowsBefore - 1) :
                   /\ rowMinima[r].row = r
                   /\ rowMinima[r].column < r
                   /\ M[r][rowMinima[r].column] = RowMinimum(M, r)
                   /\ rowMinima[r].value = RowMinimum(M, r)
                   /\ rowMinima[r].imbalance =
                          AbsDiff(leafCount(r), leafCount(rowMinima[r].column))
            /\ rowMinima[0].value = infiniteDistance
            /\ rowMinima[0].row = rowMinima[0].column
            /\ ~EntryBetter(rowMinima[0], [best EXCEPT !.value = infiniteDistance])

\* Every entry of the loaded matrix is below the sentinel.
BelowSentinelInput ==
    \A r, c \in DOMAIN matrix_in : matrix_in[r][c] < infiniteDistance

\* C18: in every round of the Joining loop on a matrix whose entries are all
\* below the sentinel, the joined pair (best.column, best.row) has the
\* smallest entry of the live lower triangle.
C18_GlobalMinimum ==
    (AfterJoinRound /\ BelowSentinelInput) =>
        LET j == joins[Len(joins)]
            M == j.matrixBefore
        IN  /\ j.a = best.column
            /\ j.b = best.row
            /\ best.column < best.row
            /\ best.row < j.rowsBefore
            /\ best.value = M[best.row][best.column]
            /\ \A r \in 0..(j.rowsBefore - 1) : \A c \in 0..(r - 1) :
                   M[best.row][best.column] <= M[r][c]

\* A second round of the Joining loop whose smallest entry is neither in
\* column 0 nor in the last row, with a larger entry before it.
C18_Witness ==
    /\ AfterJoinRound
    /\ BelowSentinelInput
    /\ Cardinality(JoinsOf("main")) >= 2
    /\ best.column >= 1
    /\ best.row < joins[Len(joins)].rowsBefore - 1
    /\ joins[Len(joins)].matrixBefore[1][0] > best.value

\* constructTree is inside clusterDuplicates.
InDuplicatePass == pc \in {"dup_set", "dup_while", "dup_for"}

\* clusterDuplicates has returned and the Joining loop has not joined yet.
AfterDuplicatePass == pc = "joining" /\ JoinsOf("main") = {}

\* C19: the duplicate pass joins only while row_count is above 3 (hence
\* above the threshold of the Joining loop, 3 unrooted and 2 rooted) and
\* never takes row_count below 3: for N >= 3, row_count >= 3 during the pass
\* and when clusterDuplicates returns, however large the duplicate sets are.
C19_DuplicatePassFloor ==
    /\ \A k \in JoinsOf("dup") :
           joins[k].rowsBefore > 3 /\ joins[k].rowsBefore > degree_of_root
    /\ (rank >= 3 /\ (InDuplicatePass \/ AfterDuplicatePass)) =>
           (row_count >= 3 /\ row_count >= degree_of_root)

\* All MaxN taxa are duplicates of one another and the pass has stopped at
\* three rows with the set not yet reduced to one cluster.
C19_Witness ==
    /\ AfterDuplicatePass
    /\ rank = MaxN
    /\ \A i, j \in 0..(rank - 1) : i # j => InputDuplicates(i, j)
    /\ row_count = 3
    /\ Len(joins) = rank - 3
    /\ Len(vvc) = 1 /\ Len(vvc[1]) > 1

\* The taxa under cluster c and the number of joins under it.
RECURSIVE Leaves(_)
Leaves(c) ==
    IF clusters[c + 1].children = <<>> THEN {c}
    ELSE UNION {Leaves(clusters[c + 1].children[j][1]) :
                   j \in DOMAIN clusters[c + 1].children}

RECURSIVE JoinsUnder(_)
JoinsUnder(c) ==
    IF clusters[c + 1].children = <<>> THEN 0
    ELSE 1 + JoinsUnder(clusters[c + 1].children[1][1])
           + JoinsUnder(clusters[c + 1].children[2][1])

\* The taxa loaded with the same row as taxon i.
DuplicateClass(i) == {t \in 0..(rank - 1) : t = i \/ InputDuplicates(t, i)}

\* One pass of the duplicate pass's inner loop that joins: element i of the
\* first floor(k/2) entries is paired with element i + ceil(k/2), the two are
\* at distinct live rows, and the new cluster number replaces slot i.
HalvingPair ==
    (pc = "dup_for" /\ joins' # joins) =>
        LET vc == vvc[vcIndex]
            k == Len(vc)
            j == joins'[Len(joins')]
        IN  /\ i_dup < k \div 2
            /\ {j.clusterA, j.clusterB} = {vc[i_dup + 1], vc[i_dup + ((k + 1) \div 2) + 1]}
            /\ j.clusterA # j.clusterB
            /\ j.a < j.b /\ j.b < row_count
            /\ vvc'[vcIndex] = [vc EXCEPT ![i_dup + 1] = Len(clusters)]
            /\ \A s \in DOMAIN vvc : s # vcIndex => vvc'[s] = vvc[s]

\* The end of a halving round: the set shrinks to its first ceil(k/2) entries.
HalvingShrink ==
    (pc = "dup_for" /\ pc' = "dup_while") =>
        vvc'[vcIndex] = SubSeq(vvc[vcIndex], 1, (Len(vvc[vcIndex]) + 1) \div 2)

\* A duplicate set the pass has reduced to one entry holds a live cluster
\* over exactly the k taxa of the set, built by exactly k-1 joins.
ReducedSets ==
    (InDuplicatePass \/ AfterDuplicatePass) =>
        \A s \in DOMAIN vvc :
            (Len(vvc[s]) = 1 /\ (s < vcIndex \/ AfterDuplicatePass)) =>
                LET c == vvc[s][1]
                    k == Cardinality(Leaves(c))
                IN  /\ c \in LiveClusters
                    /\ k >= 2
                    /\ \A t \in Leaves(c) : Leaves(c) = DuplicateClass(t)
                    /\ countOfExteriorNodes(c) = k
                    /\ JoinsUnder(c) = k - 1

\* No cluster is joined twice by the duplicate pass.
JoinedOnce ==
    \A m, n \in JoinsOf("dup") :
        /\ joins[m].clusterA # joins[m].clusterB
        /\ m # n => {joins[m].clusterA, joins[m].clusterB}
                        \cap {joins[n].clusterA, joins[n].clusterB} = {}

C21_DupesRemovedCount ==
    (AfterDuplicatePass /\ rank >= 3) =>
        /\ dupes_removed = Cardinality(JoinsOf("dup"))
        /\ dupes_removed = rank - row_count

\* A step of constructTree keeps every record the tracker already holds.
RecordsKept ==
    pc # "new" =>
        /\ Len(clusters') >= Len(clusters)
        /\ SubSeq(clusters', 1, Len(clusters)) = clusters

\* One record per join and one for the finishing step, after the N leaves.
RecordsAppended ==
    (pc # "new" /\ rank >= 3) =>
        /\ Len(clusters) = rank + Len(joins) + (IF finishCalls >= 1 THEN 1 ELSE 0)
        /\ \A k \in 1..rank : clusters[k] = LeafCluster
        /\ \A k \in 1..Len(joins) : joins[k].parent = rank + k - 1

\* C22: cluster records are append-only.  Every join and the finishing step
\* append exactly one record at index clusters.size(); no step of
\* constructTree removes a record or changes one appended earlier; the N
\* leaf records keep the ids 0..N-1.
C22_AppendOnly == [][RecordsKept]_vars /\ []RecordsAppended

\* C23: after loadMatrix with N names row_count is N, rowToCluster[i] = i
\* for every i in [0, N) and the tracker holds exactly N leaf records, also
\* when the object was already loaded or has already constructed a tree.
C23_LoadResets ==
    pc = "loaded" =>
        LET N == Cardinality(DOMAIN matrix_in)
        IN  /\ row_count = N
            /\ DOMAIN rowToCluster = 0..(N - 1)
            /\ \A i \in 0..(N - 1) : rowToCluster[i] = i
            /\ Len(clusters) = N
            /\ \A k \in 1..N : clusters[k] = LeafCluster

\* A second load, of fewer taxa than the tree the object has constructed.
C23_Witness ==
    /\ pc = "loaded"
    /\ loads = 2
    /\ rank = 3
    /\ Cardinality(DOMAIN rowMinima) > rank

\* The rows of the call joins[k] other than the two it joins.
OtherRows(k) == (0..(joins[k].rowsBefore - 1)) \ {joins[k].a, joins[k].b}

\* C24: cluster(a, b) leaves the distance between any two live clusters
\* other than the two joined unchanged: for clusters x, y not at rows a or b
\* the entry at the rows that hold them after the join (the last row having
\* moved to slot b) is the entry at their rows before the join.
C24_JoinFrame ==
    (BeforeFinish /\ joins # <<>>) =>
        LET k == Len(joins)
        IN  \A x, y \in OtherRows(k) :
                /\ rows[RowAfterJoin(k, x)][RowAfterJoin(k, y)]
                       = joins[k].matrixBefore[x][y]
                /\ joins[k].b < joins[k].rowsBefore =>
                       /\ RowAfterJoin(k, x) < row_count
                       /\ rowToCluster[RowAfterJoin(k, x)] = joins[k].mapBefore[x]

\* A join of rows a < b with b not the last row, among five live rows with
\* two different distances between the other clusters.
C24_Witness ==
    /\ BeforeFinish
    /\ joins # <<>>
    /\ ProperJoin(Len(joins))
    /\ joins[Len(joins)].rowsBefore = 5
    /\ joins[Len(joins)].b < 4
    /\ \E x, y, z \in OtherRows(Len(joins)) :
           /\ x # y /\ x # z /\ y # z
           /\ joins[Len(joins)].matrixBefore[x][y] # joins[Len(joins)].matrixBefore[x][z]

\* C25: in every round of the Joining loop the Position getMinimumEntry
\* returns indexes live rows of that round, 0 <= best.column and
\* best.row < row_count, and is an entry of that round's rowMinima, not a
\* leftover of an earlier round or of default initialisation, also when no
\* row minimum is below the sentinel.
C25_BestIsLive ==
    AfterJoinRound =>
        /\ 0 <= best.column
        /\ best.row < joins[Len(joins)].rowsBefore
        /\ \E r \in 1..(joins[Len(joins)].rowsBefore - 1) : best = rowMinima[r]

\* C26: every access weights[i] of finishClustering, i in [0, row_count), is
\* within the current length of weights.
C26_WeightsInBounds ==
    (AtFinish /\ (row_count = 2 \/ row_count = 3)) =>
        \A i \in WeightsIndices : i < Len(weights)

\* C27: prepareToFilter writes the score of each candidate taxon at a column
\* inside [0, stopTaxon - startTaxon) of scores, the 0-based column the
\* ranking loop reads for that taxon (taxon index minus taxon_base), also
\* when startTaxon > 0.
C27_ScoreColumnInRange ==
    heuristic # <<>> =>
        \A w \in heuristic.written :
            /\ 0 <= w.column
            /\ w.column < heuristic.stopTaxon - heuristic.startTaxon
            /\ w.column = w.taxon - heuristic.taxon_base

\* The parameter types the claim C28 lists for a wrapper, in its order.
OptimizedTypes(w) ==
    (IF w.isOptimizingShapes THEN <<"SHAPE">> ELSE <<>>)
    \o (IF w.isOptimizingProportions
           THEN <<"PROPORTION", "INVARIANT_PROPORTION">> ELSE <<>>)
    \o (IF w.isOptimizingRates THEN <<"RATE">> ELSE <<>>)

\* C28: setBounds requests bounds for exactly the parameter types that
\* getVariables and setVariables pack: SHAPE iff isOptimizingShapes(),
\* PROPORTION and INVARIANT_PROPORTION iff isOptimizingProportions(), RATE
\* iff isOptimizingRates(), in that order.
C28_BoundsMatchPacking ==
    (wrapper # <<>> /\ "setBounds" \in wrapper.called) =>
        /\ wrapper.bounds = OptimizedTypes(wrapper)
        /\ "getVariables" \in wrapper.called => wrapper.bounds = wrapper.updated
        /\ "setVariables" \in wrapper.called => wrapper.bounds = wrapper.read

\* C29: defaultInvariantProportion called while phylo_tree is null completes
\* without dereferencing the tree: p_invar is the requested value, or
\* MIN_PINVAR when 0 is requested, and minimum, maximum and tolerance are
\* assigned.
C29_NullTreeCompletes ==
    (invar # <<>> /\ invar.phylo_tree.null /\ invar.at \notin {"entry", "maximum"}) =>
        /\ invar.at = "returned"
        /\ ~invar.dereferenced_null
        /\ invar.p_invar = IF invar.p_invar_requested # 0
                               THEN invar.p_invar_requested ELSE MIN_PINVAR
        /\ invar.minimum = MIN_PINVAR
        /\ invar.maximum # Unassigned
        /\ invar.tolerance = "TOL_PINVAR"

\* The duplicate pass is about to join: the body of its for loop runs next.
BeforeDuplicateJoin == pc = "dup_for" /\ i_dup < first_half /\ DupRoom

\* C30: before every join of the duplicate pass, cluster_to_row maps the
\* cluster of every live row back to that row, has one entry per cluster
\* record, and the rows looked up for the two clusters to be joined are
\* distinct live rows.
C30_InverseMap ==
    BeforeDuplicateJoin =>
        /\ Len(cluster_to_row) = Len(clusters)
        /\ \A r \in 0..(row_count - 1) : cluster_to_row[rowToCluster[r] + 1] = r
        /\ LET vc == vvc[vcIndex]
               ra == cluster_to_row[vc[i_dup + 1] + 1]
               rb == cluster_to_row[vc[i_dup + second_half + 1] + 1]
           IN  /\ ra # rb
               /\ ra \in 0..(row_count - 1)
               /\ rb \in 0..(row_count - 1)

\* A join of the duplicate pass is about to happen after an earlier one that
\* moved the cluster of the last row into the row of the second cluster.
C30_Witness ==
    /\ BeforeDuplicateJoin
    /\ joins # <<>>
    /\ joins[Len(joins)].phase = "dup"
    /\ \E r \in 0..(row_count - 1) :
           /\ rowToCluster[r] < rank
           /\ rowToCluster[r] # r

====
